---------------------------- MODULE Spec2Model ----------------------------
(***************************************************************************)
(* Ride/booking ledger of the campus ride-share backend.                   *)
(*                                                                         *)
(* The store is the two tables `rides` and `bookings` (database.py).       *)
(* Every Database method opens its own connection and commits on exit      *)
(* (get_connection), so one method call is one transaction; a request      *)
(* handler (routes_*.py) is a sequence of such calls, and other handlers   *)
(* (app.run(threaded=True)) may commit between two of them.                *)
(* approve_booking and cancel_booking first SELECT and then UPDATE with    *)
(* the values they read: the SELECT takes no lock that outlives it, so     *)
(* another transaction may commit between the SELECT and the UPDATEs;      *)
(* the UPDATEs of one call commit together.                                *)
(*                                                                         *)
(* `inflight` is the bag of request handlers that are executing, each with *)
(* its position (pc) and the values it has read so far.                    *)
(***************************************************************************)
EXTENDS Integers, FiniteSets, Bags, TLC

\* ------------------------------------------------------------------ bounds
MaxUsers == 3        \* users 1..MaxUsers
MaxRides == 1        \* rides ever created
MaxSeats == 2        \* largest total_seats a request asks for
MaxBookings == 3     \* booking rows ever inserted
MaxProcs == 2        \* request handlers executing at the same time
MaxTicks == 4        \* the clock stops after MaxTicks ticks
TickSeconds == 1800  \* length of a tick of the clock

\* ------------------------------------------------------- program constants
MinTotalSeats == 1   \* CHECK (total_seats >= 1 AND total_seats <= 7)
MaxTotalSeats == 7
CleanupInterval == 3600   \* (now - last_cleanup).total_seconds() > 3600

Users == 1..MaxUsers
Admins == {1}        \* users whose is_admin flag is set

RideStatuses == {"active", "full", "completed", "cancelled"}
BookingStatuses == {"pending", "confirmed", "cancelled", "completed", "rejected"}

VARIABLES
    rides,           \* id -> row of table rides
    bookings,        \* id -> row of table bookings
    nextRideId,      \* AUTOINCREMENT / SERIAL of rides.id
    nextBookingId,   \* AUTOINCREMENT / SERIAL of bookings.id
    inflight,        \* bag of executing request handlers
    last_cleanup,    \* app._last_cleanup: {} (None) or {the time a finished sweep read}
    now,             \* datetime.now(), in ticks of TickMinutes minutes
    last_run,        \* the time db.run_ride_cleanup was last called (a history value)
    raised           \* the last sweep of a request ended with an exception (history)

\* app.py's schedule of the sweep.  No handler of routes_*.py reads or writes
\* it: it moves only under SweepSpec.
appVars == <<last_cleanup, now, last_run, raised>>

vars == <<rides, bookings, nextRideId, nextBookingId, inflight, appVars>>

\* --------------------------------------------------------------- the schema
\* rides.status CHECK: 'expired' is not among the allowed values.
RideStatusCheck(s) == s \in RideStatuses

TotalSeatsCheck(n) == n >= MinTotalSeats /\ n <= MaxTotalSeats

\* bookings UNIQUE (ride_id, passenger_id): over all rows, whatever their status.
BookingsUnique(r, u) ==
    ~ \E b \in DOMAIN bookings :
        bookings[b].ride_id = r /\ bookings[b].passenger_id = u

\* bookings FOREIGN KEY (ride_id) REFERENCES rides(id), PRAGMA foreign_keys = ON.
BookingsOfRide(r) == {b \in DOMAIN bookings : bookings[b].ride_id = r}

BookingsWithStatus(r, S) == {b \in BookingsOfRide(r) : bookings[b].status \in S}

\* A row of rides.  departure_date/departure_time enter only through `due`:
\* departure + 30 minutes is earlier than now.  updated_at enters only through
\* `stale`: updated_at is set and more than one day in the past (it is NULL in
\* a new row, and every UPDATE of the row sets it to now).
RideRow(d, n) ==
    [driver_id |-> d, total_seats |-> n, seats_taken |-> 0, status |-> "active",
     due |-> FALSE, stale |-> FALSE]

BookingRow(r, u) == [ride_id |-> r, passenger_id |-> u, status |-> "pending"]

\* ------------------------------------------------------ executing handlers
\* op: the handler, pc: the database call it will make next, id: the ride or
\* booking of the request, and what the handler has read and still uses
\* (actor: the logged-in user, kept only where a later call takes it; 0 and
\* "-" stand for "not read").  `affected` is not a value the code keeps: it
\* records the passengers whose bookings the UPDATE of db.cancel_ride
\* changed, for stating what the notifications of that request owe.
Handler(op, pc, actor, id, ride_id, seats_taken, total_seats, status) ==
    [op |-> op, pc |-> pc, actor |-> actor, id |-> id, ride_id |-> ride_id,
     seats_taken |-> seats_taken, total_seats |-> total_seats, status |-> status,
     affected |-> {}]

Running == BagToSet(inflight)

CanStart == BagCardinality(inflight) < MaxProcs

Start(h) == inflight' = inflight (+) SetToBag({h})

Goto(h, h2) == inflight' = (inflight (-) SetToBag({h})) (+) SetToBag({h2})

Finish(h) == inflight' = inflight (-) SetToBag({h})

\* The application as imported: empty tables, create_app() done and the
\* start-up block's db.run_ride_cleanup() run (at time 0, on no ride), which
\* does not set app._last_cleanup.
Init ==
    /\ rides = << >>
    /\ bookings = << >>
    /\ nextRideId = 1
    /\ nextBookingId = 1
    /\ inflight = EmptyBag
    /\ last_cleanup = {}
    /\ now = 0
    /\ last_run = 0
    /\ raised = FALSE

\* --------------------------------------------------------------- create_ride
\* post_ride / api_create_ride -> Database.create_ride: one INSERT.
CreateRide(u, n) ==
    /\ CanStart
    /\ nextRideId <= MaxRides
    /\ TotalSeatsCheck(n)
    /\ rides' = (nextRideId :> RideRow(u, n)) @@ rides
    /\ nextRideId' = nextRideId + 1
    /\ UNCHANGED <<bookings, nextBookingId, inflight, appVars>>

\* ------------------------------------------------------------ RequestBooking
\* The entry points without their test of ride['driver_id'] against the user:
\* C12 rests on it.
BookChecks_NoDriverTest(via, ride, u, blocked) ==
    /\ via \in {"book_ride", "api_quick_book_ride"} => ride.status = "active"
    /\ ride.total_seats - ride.seats_taken >= 1
    /\ via = "book_ride" => ~blocked

\* The three entry points read the ride first (get_ride_by_id) and decide on
\* that snapshot: book_ride and api_quick_book_ride refuse the driver, a ride
\* that is not 'active' and a ride without a free seat; api_create_booking
\* refuses the driver and a ride without a free seat and never looks at the
\* ride's status.  book_ride also asks is_user_blocked / is_blocked_by
\* (`blocked`, users' block lists are not part of this model).
BookChecks(via, ride, u, blocked) ==
    /\ ride.driver_id # u
    /\ via \in {"book_ride", "api_quick_book_ride"} => ride.status = "active"
    /\ ride.total_seats - ride.seats_taken >= 1
    /\ via = "book_ride" => ~blocked

\* Booking rows are capped at MaxBookings: no request starts that could
\* insert one more.
BookingsInFlight == BagCardinality([h \in {g \in Running : g.op = "book"} |-> inflight[h]])

BookStart(via, u, r, blocked) ==
    /\ CanStart
    /\ nextBookingId + BookingsInFlight <= MaxBookings
    /\ r \in DOMAIN rides
    /\ BookChecks(via, rides[r], u, blocked)
    /\ Start(Handler("book", "check_existing_booking", u, r, r, 0, 0, "-"))
    /\ UNCHANGED <<rides, bookings, nextRideId, nextBookingId, appVars>>

\* Database.check_existing_booking: a row of this pair whose status is not
\* 'cancelled' or 'rejected'.
check_existing_booking(r, u) ==
    \E b \in DOMAIN bookings :
        /\ bookings[b].ride_id = r
        /\ bookings[b].passenger_id = u
        /\ bookings[b].status \notin {"cancelled", "rejected"}

BookCheckExisting(h) ==
    /\ h \in Running /\ h.op = "book" /\ h.pc = "check_existing_booking"
    /\ IF check_existing_booking(h.ride_id, h.actor)
         THEN Finish(h)
         ELSE Goto(h, [h EXCEPT !.pc = "create_booking"])
    /\ UNCHANGED <<rides, bookings, nextRideId, nextBookingId, appVars>>

\* create_booking over a bookings table without UNIQUE (ride_id,
\* passenger_id): C5 rests on the constraint.
create_booking_ok_NoUnique(r, u) == r \in DOMAIN rides

\* Database.create_booking: INSERT INTO bookings (ride_id, passenger_id); an
\* IntegrityError (UNIQUE or FOREIGN KEY) is caught and None returned.
create_booking_ok(r, u) == BookingsUnique(r, u) /\ r \in DOMAIN rides

BookCreate(h) ==
    /\ h \in Running /\ h.op = "book" /\ h.pc = "create_booking"
    /\ IF create_booking_ok(h.ride_id, h.actor)
         THEN /\ bookings' = (nextBookingId :> BookingRow(h.ride_id, h.actor)) @@ bookings
              /\ nextBookingId' = nextBookingId + 1
         ELSE UNCHANGED <<bookings, nextBookingId>>
    /\ Finish(h)
    /\ UNCHANGED <<rides, nextRideId, appVars>>

\* ------------------------------------------------------------ ApproveBooking
\* approve_booking (web) and api_approve_booking read the booking joined with
\* its ride (get_booking_by_id): the web route lets only the driver through,
\* the API the driver or an admin; both require status 'pending'.  The web
\* route then reads the ride and refuses when no seat is free.
IsDriverOf(u, b) == rides[bookings[b].ride_id].driver_id = u

ApproveChecks(via, u, b) ==
    /\ IF via = "approve_booking" THEN IsDriverOf(u, b)
                                  ELSE IsDriverOf(u, b) \/ u \in Admins
    /\ bookings[b].status = "pending"
    /\ via = "approve_booking" =>
          LET ride == rides[bookings[b].ride_id]
          IN  ride.total_seats - ride.seats_taken > 0

ApproveStart(via, u, b) ==
    /\ CanStart
    /\ b \in DOMAIN bookings
    /\ ApproveChecks(via, u, b)
    /\ Start(Handler("approve", "select", 0, b, 0, 0, 0, "-"))
    /\ UNCHANGED <<rides, bookings, nextRideId, nextBookingId, appVars>>

\* Database.approve_booking without its `if seats_taken >= total_seats: return
\* False`: C21 rests on it.
ApproveSelect_NoSeatTest(h) ==
    /\ h \in Running /\ h.op = "approve" /\ h.pc = "select"
    /\ IF h.id \in DOMAIN bookings /\ bookings[h.id].status = "pending"
         THEN LET ride_id == bookings[h.id].ride_id
              IN  Goto(h, [h EXCEPT !.pc = "update", !.ride_id = ride_id,
                                    !.total_seats = rides[ride_id].total_seats,
                                    !.seats_taken = rides[ride_id].seats_taken])
         ELSE Finish(h)
    /\ UNCHANGED <<rides, bookings, nextRideId, nextBookingId, appVars>>

\* Database.approve_booking, the SELECT ... WHERE b.id = ? AND b.status =
\* 'pending' and the two early returns (return False: the routes answer with
\* their error message, the UPDATEs are not reached).
ApproveSelect(h) ==
    /\ h \in Running /\ h.op = "approve" /\ h.pc = "select"
    /\ IF h.id \in DOMAIN bookings /\ bookings[h.id].status = "pending"
         THEN LET ride_id == bookings[h.id].ride_id
                  total_seats == rides[ride_id].total_seats
                  seats_taken == rides[ride_id].seats_taken
              IN  IF seats_taken >= total_seats
                    THEN Finish(h)
                    ELSE Goto(h, [h EXCEPT !.pc = "update", !.ride_id = ride_id,
                                           !.total_seats = total_seats,
                                           !.seats_taken = seats_taken])
         ELSE Finish(h)
    /\ UNCHANGED <<rides, bookings, nextRideId, nextBookingId, appVars>>

\* approve_booking marking the ride full only beyond total_seats (> for >=):
\* C8 rests on the comparison.
ApproveRide_StrictlyAbove(ride, seats_taken, total_seats) ==
    LET new_seats_taken == seats_taken + 1
    IN  [ride EXCEPT !.seats_taken = new_seats_taken,
                     !.status = IF new_seats_taken > total_seats THEN "full" ELSE @,
                     !.stale = FALSE]

\* Database.approve_booking, the UPDATEs: bookings SET status = 'confirmed'
\* WHERE id = ?; rides SET seats_taken = seats_taken(read) + 1; and rides SET
\* status = 'full' when that reaches total_seats(read).
ApproveRide(ride, seats_taken, total_seats) ==
    LET new_seats_taken == seats_taken + 1
    IN  [ride EXCEPT !.seats_taken = new_seats_taken,
                     !.status = IF new_seats_taken >= total_seats THEN "full" ELSE @,
                     !.stale = FALSE]

ApproveUpdate(h) ==
    /\ h \in Running /\ h.op = "approve" /\ h.pc = "update"
    /\ bookings' = IF h.id \in DOMAIN bookings
                     THEN [bookings EXCEPT ![h.id].status = "confirmed"]
                     ELSE bookings
    /\ rides' = IF h.ride_id \in DOMAIN rides
                  THEN [rides EXCEPT ![h.ride_id] =
                           ApproveRide(@, h.seats_taken, h.total_seats)]
                  ELSE rides
    /\ Finish(h)
    /\ UNCHANGED <<nextRideId, nextBookingId, appVars>>

\* ------------------------------------------------------------- RejectBooking
RejectChecks(via, u, b) ==
    /\ IF via = "reject_booking" THEN IsDriverOf(u, b)
                                 ELSE IsDriverOf(u, b) \/ u \in Admins
    /\ bookings[b].status = "pending"

\* Database.reject_booking: UPDATE ... WHERE id = ? AND status = 'pending'.
reject_booking(b) ==
    IF b \in DOMAIN bookings /\ bookings[b].status = "pending"
      THEN [bookings EXCEPT ![b].status = "rejected"]
      ELSE bookings

\* reject_booking / api_reject_booking.  The UPDATE tests the status again, so
\* the handler changes the store exactly when the booking is pending at the
\* UPDATE: the route's read and the UPDATE are one step here.
RejectBooking(via, u, b) ==
    /\ CanStart
    /\ b \in DOMAIN bookings
    /\ RejectChecks(via, u, b)
    /\ bookings' = reject_booking(b)
    /\ UNCHANGED <<rides, nextRideId, nextBookingId, inflight, appVars>>

\* ------------------------------------------------------------- CancelBooking
\* cancel_booking (web): the passenger or the driver, and only a 'pending' or
\* 'confirmed' booking.  api_cancel_booking: the passenger or an admin, and
\* no look at the booking's status.
CancelChecks(via, u, b) ==
    IF via = "cancel_booking"
      THEN /\ bookings[b].passenger_id = u \/ IsDriverOf(u, b)
           /\ bookings[b].status \in {"pending", "confirmed"}
      ELSE bookings[b].passenger_id = u \/ u \in Admins

CancelStart(via, u, b) ==
    /\ CanStart
    /\ b \in DOMAIN bookings
    /\ CancelChecks(via, u, b)
    /\ Start(Handler("cancel", "select", 0, b, 0, 0, 0, "-"))
    /\ UNCHANGED <<rides, bookings, nextRideId, nextBookingId, appVars>>

\* Database.cancel_booking, the SELECT b.status, b.ride_id, r.seats_taken.
CancelSelect(h) ==
    /\ h \in Running /\ h.op = "cancel" /\ h.pc = "select"
    /\ IF h.id \in DOMAIN bookings
         THEN LET ride_id == bookings[h.id].ride_id
              IN  Goto(h, [h EXCEPT !.pc = "update", !.ride_id = ride_id,
                                    !.status = bookings[h.id].status,
                                    !.seats_taken = rides[ride_id].seats_taken])
         ELSE Finish(h)
    /\ UNCHANGED <<rides, bookings, nextRideId, nextBookingId, appVars>>

Max(a, b) == IF a >= b THEN a ELSE b

\* cancel_booking without the CASE that reopens a full ride: C9 rests on it.
CancelRideRow_StaysFull(ride, seats_taken) ==
    [ride EXCEPT !.seats_taken = Max(0, seats_taken - 1),
                 !.stale = FALSE]

\* Database.cancel_booking, the UPDATE of rides when old_status = 'confirmed'.
CancelRideRow(ride, seats_taken) ==
    [ride EXCEPT !.seats_taken = Max(0, seats_taken - 1),
                 !.status = IF @ = "full" THEN "active" ELSE @,
                 !.stale = FALSE]

\* Database.cancel_booking, the UPDATEs: bookings SET status = 'cancelled'
\* WHERE id = ?, whatever the status is now.
CancelUpdate(h) ==
    /\ h \in Running /\ h.op = "cancel" /\ h.pc = "update"
    /\ bookings' = IF h.id \in DOMAIN bookings
                     THEN [bookings EXCEPT ![h.id].status = "cancelled"]
                     ELSE bookings
    /\ rides' = IF h.status = "confirmed" /\ h.ride_id \in DOMAIN rides
                  THEN [rides EXCEPT ![h.ride_id] = CancelRideRow(@, h.seats_taken)]
                  ELSE rides
    /\ Finish(h)
    /\ UNCHANGED <<nextRideId, nextBookingId, appVars>>

\* ---------------------------------------------------------------- CancelRide
\* cancel_ride (routes_rides): the driver, ride not 'completed'/'cancelled'.
\* cancel_ride (routes_admin): an admin, same status test.
CancelRideChecks(via, u, r) ==
    /\ via = "rides.cancel_ride" => rides[r].driver_id = u
    /\ via = "admin.cancel_ride" => u \in Admins
    /\ rides[r].status \notin {"completed", "cancelled"}

CancelRideStart(via, u, r) ==
    /\ CanStart
    /\ r \in DOMAIN rides
    /\ CancelRideChecks(via, u, r)
    /\ Start(Handler("cancel_ride", "cancel_ride", 0, r, r, 0, 0, "-"))
    /\ UNCHANGED <<rides, bookings, nextRideId, nextBookingId, appVars>>

\* Database.cancel_ride: rides SET status = 'cancelled' WHERE id = ?; then
\* bookings SET status = 'cancelled' WHERE ride_id = ? AND status IN
\* ('pending', 'confirmed').  seats_taken is not written.
cancel_ride_rides(r) ==
    IF r \in DOMAIN rides
      THEN [rides EXCEPT ![r].status = "cancelled", ![r].stale = FALSE]
      ELSE rides

\* cancel_ride cancelling only the pending bookings (status = 'pending' for
\* status IN ('pending', 'confirmed')): C13 rests on the IN list.
cancel_ride_bookings_PendingOnly(r) ==
    [b \in DOMAIN bookings |->
        IF bookings[b].ride_id = r /\ bookings[b].status = "pending"
          THEN [bookings[b] EXCEPT !.status = "cancelled"]
          ELSE bookings[b]]

cancel_ride_bookings(r) ==
    [b \in DOMAIN bookings |->
        IF bookings[b].ride_id = r /\ bookings[b].status \in {"pending", "confirmed"}
          THEN [bookings[b] EXCEPT !.status = "cancelled"]
          ELSE bookings[b]]

\* The passengers of the ride's bookings that are 'pending' or 'confirmed':
\* those whose bookings the UPDATE of db.cancel_ride changes, and those the
\* loop over get_bookings_by_ride notifies.
PendingOrConfirmedPassengers(r) ==
    {bookings[b].passenger_id : b \in BookingsWithStatus(r, {"pending", "confirmed"})}

CancelRideUpdate(h) ==
    /\ h \in Running /\ h.op = "cancel_ride" /\ h.pc = "cancel_ride"
    /\ rides' = cancel_ride_rides(h.ride_id)
    /\ bookings' = cancel_ride_bookings(h.ride_id)
    /\ Goto(h, [h EXCEPT !.pc = "get_bookings_by_ride",
                         !.affected = PendingOrConfirmedPassengers(h.ride_id)])
    /\ UNCHANGED <<nextRideId, nextBookingId, appVars>>

\* cancel_ride (routes_rides, routes_admin) after db.cancel_ride: both read
\* get_bookings_by_ride and call send_booking_cancelled_notification for the
\* passenger of every booking whose status, as read now, is 'pending' or
\* 'confirmed'.  The notices go to the mail server and to email_logs, a
\* table no handler of this model reads: they are the value of
\* CancelRideRecipients at the step and leave no trace in the state.  (The
\* admin route also sends the notice to the ride's driver.)
CancelRideRecipients(r) == PendingOrConfirmedPassengers(r)

CancelRideNotify(h) ==
    /\ h \in Running /\ h.op = "cancel_ride" /\ h.pc = "get_bookings_by_ride"
    /\ Finish(h)
    /\ UNCHANGED <<rides, bookings, nextRideId, nextBookingId, appVars>>

\* api_cancel_ride and api_admin_cancel_ride return after db.cancel_ride: they
\* call no send_* function.
ApiCancelRideRecipients(r) == {}

\* api_cancel_ride: the driver or an admin; api_admin_cancel_ride: an admin.
\* Neither looks at the ride's status, so nothing the route reads can change
\* before db.cancel_ride runs: one step.
ApiCancelRide(via, u, r) ==
    /\ CanStart
    /\ r \in DOMAIN rides
    /\ IF via = "api_cancel_ride" THEN rides[r].driver_id = u \/ u \in Admins
                                  ELSE u \in Admins
    /\ rides' = cancel_ride_rides(r)
    /\ bookings' = cancel_ride_bookings(r)
    /\ UNCHANGED <<nextRideId, nextBookingId, inflight, appVars>>

\* -------------------------------------------------------------- CompleteRide
\* complete_ride (web): the driver, ride 'active' or 'full'.
\* api_complete_ride: the driver or an admin, ride not 'completed'/'cancelled'.
CompleteRideChecks(via, u, r) ==
    IF via = "complete_ride"
      THEN /\ rides[r].driver_id = u
           /\ rides[r].status \in {"active", "full"}
      ELSE /\ rides[r].driver_id = u \/ u \in Admins
           /\ rides[r].status \notin {"completed", "cancelled"}

CompleteRideStart(via, u, r) ==
    /\ CanStart
    /\ r \in DOMAIN rides
    /\ CompleteRideChecks(via, u, r)
    /\ Start(Handler("complete_ride", "update", 0, r, r, 0, 0, "-"))
    /\ UNCHANGED <<rides, bookings, nextRideId, nextBookingId, appVars>>

\* Database.mark_ride_completed: rides SET status = 'completed' WHERE id = ?;
\* bookings SET status = 'completed' WHERE ride_id = ? AND status = 'confirmed'.
mark_ride_completed_rides(r) ==
    IF r \in DOMAIN rides
      THEN [rides EXCEPT ![r].status = "completed", ![r].stale = FALSE]
      ELSE rides

mark_ride_completed_bookings(r) ==
    [b \in DOMAIN bookings |->
        IF bookings[b].ride_id = r /\ bookings[b].status = "confirmed"
          THEN [bookings[b] EXCEPT !.status = "completed"]
          ELSE bookings[b]]

CompleteRideUpdate(h) ==
    /\ h \in Running /\ h.op = "complete_ride" /\ h.pc = "update"
    /\ rides' = mark_ride_completed_rides(h.ride_id)
    /\ bookings' = mark_ride_completed_bookings(h.ride_id)
    /\ Finish(h)
    /\ UNCHANGED <<nextRideId, nextBookingId, appVars>>

\* ---------------------------------------------------------------- update_ride
\* Database.update_ride as the two routes call it: SET total_seats, the
\* departure (through `due`) and updated_at (a request that leaves a field
\* out is one that repeats its value).  The status and seats_taken columns
\* are not written.  A total_seats outside the CHECK raises IntegrityError
\* and the UPDATE is rolled back.
update_ride(r, n, due) ==
    IF r \in DOMAIN rides /\ TotalSeatsCheck(n)
      THEN [rides EXCEPT ![r].total_seats = n, ![r].due = due, ![r].stale = FALSE]
      ELSE rides

\* edit_ride (web, POST): the driver only, ride not 'completed'/'cancelled'.
EditRideStart(u, r) ==
    /\ CanStart
    /\ r \in DOMAIN rides
    /\ rides[r].driver_id = u
    /\ rides[r].status \notin {"completed", "cancelled"}
    /\ Start(Handler("edit_ride", "get_bookings_by_ride", 0, r, r, 0, 0, "-"))
    /\ UNCHANGED <<rides, bookings, nextRideId, nextBookingId, appVars>>

\* edit_ride: get_bookings_by_ride, validate_ride_data (1 <= total_seats <= 7)
\* and the refusal of a total_seats below the number of confirmed bookings.
EditRideValidate(h, n) ==
    /\ h \in Running /\ h.op = "edit_ride" /\ h.pc = "get_bookings_by_ride"
    /\ LET confirmed_count == Cardinality(BookingsWithStatus(h.ride_id, {"confirmed"}))
       IN  IF n >= MinTotalSeats /\ n <= MaxTotalSeats /\ ~(n < confirmed_count)
             THEN Goto(h, [h EXCEPT !.pc = "update", !.total_seats = n])
             ELSE Finish(h)
    /\ UNCHANGED <<rides, bookings, nextRideId, nextBookingId, appVars>>

EditRideUpdate(h, due) ==
    /\ h \in Running /\ h.op = "edit_ride" /\ h.pc = "update"
    /\ rides' = update_ride(h.ride_id, h.total_seats, due)
    /\ Finish(h)
    /\ UNCHANGED <<bookings, nextRideId, nextBookingId, appVars>>

\* api_update_ride: the driver or an admin; no look at the status, the
\* bookings or seats_taken, so the route's read and the UPDATE are one step.
ApiUpdateRide(u, r, n, due) ==
    /\ CanStart
    /\ r \in DOMAIN rides
    /\ rides[r].driver_id = u \/ u \in Admins
    /\ rides' = update_ride(r, n, due)
    /\ UNCHANGED <<bookings, nextRideId, nextBookingId, inflight, appVars>>

\* ---------------------------------------------------------------- delete_ride
\* delete_ride on tables without the FOREIGN KEY of bookings.ride_id (or
\* with PRAGMA foreign_keys left off): only its own test of confirmed
\* bookings stands.  C28 rests on the constraint.
delete_ride_ok_NoForeignKey(r, referenced) ==
    /\ r \in DOMAIN rides
    /\ BookingsWithStatus(r, {"confirmed"}) = {}

\* Database.delete_ride: returns False when a confirmed booking exists; the
\* DELETE FROM rides raises IntegrityError (FOREIGN KEY without ON DELETE
\* CASCADE) while any booking, message or review references the ride
\* (`referenced`: messages and reviews are not part of this model).
delete_ride_ok(r, referenced) ==
    /\ r \in DOMAIN rides
    /\ BookingsWithStatus(r, {"confirmed"}) = {}
    /\ BookingsOfRide(r) = {}
    /\ ~referenced

DeleteRows(f, S) == [x \in (DOMAIN f) \ S |-> f[x]]

\* api_delete_ride: the driver or an admin; the route reads nothing that
\* db.delete_ride does not test again: one step.
ApiDeleteRide(u, r, referenced) ==
    /\ CanStart
    /\ r \in DOMAIN rides
    /\ rides[r].driver_id = u \/ u \in Admins
    /\ rides' = IF delete_ride_ok(r, referenced) THEN DeleteRows(rides, {r}) ELSE rides
    /\ UNCHANGED <<bookings, nextRideId, nextBookingId, inflight, appVars>>

\* ------------------------------------------------------------- cleanup sweep
\* before_request_user and the start-up block call Database.run_ride_cleanup:
\* mark_expired_rides_inactive, then delete_old_expired_rides, each in its
\* own transaction.
CleanupStart ==
    /\ CanStart
    /\ Start(Handler("run_ride_cleanup", "mark_expired_rides_inactive", 0, 0, 0, 0, 0, "-"))
    /\ UNCHANGED <<rides, bookings, nextRideId, nextBookingId, appVars>>

\* The rows the UPDATE of mark_expired_rides_inactive matches in a rides
\* table R, and R as the UPDATE writes it.
ExpiredRows(R) == {r \in DOMAIN R : R[r].status \in {"active", "full"} /\ R[r].due}

\* The UPDATE with seats_taken = 0 added to its SET list: C26 rests on the
\* list naming only status and updated_at.
MarkExpiredRows_ResetsSeats(R) ==
    [r \in DOMAIN R |->
        IF r \in ExpiredRows(R)
          THEN [R[r] EXCEPT !.status = "expired", !.seats_taken = 0, !.stale = FALSE]
          ELSE R[r]]

MarkExpiredRows(R) ==
    [r \in DOMAIN R |->
        IF r \in ExpiredRows(R)
          THEN [R[r] EXCEPT !.status = "expired", !.stale = FALSE]
          ELSE R[r]]

ExpiredNow == ExpiredRows(rides)

mark_expired_rides_inactive == MarkExpiredRows(rides)

\* The mark phase as an UPDATE of every due ride whatever its status, on a
\* table whose CHECK admits 'expired': C25 rests on the WHERE status IN
\* ('active', 'full') of the statement (and on the CHECK).
CleanupMark_AnyStatus(h) ==
    /\ h \in Running /\ h.op = "run_ride_cleanup" /\ h.pc = "mark_expired_rides_inactive"
    /\ rides' = [r \in DOMAIN rides |->
                    IF rides[r].due
                      THEN [rides[r] EXCEPT !.status = "expired", !.stale = FALSE]
                      ELSE rides[r]]
    /\ Goto(h, [h EXCEPT !.pc = "delete_old_expired_rides"])
    /\ UNCHANGED <<bookings, nextRideId, nextBookingId, appVars>>

\* The mark phase on a connection that commits where get_connection rolls
\* back (conn.commit() in the finally): what the failed transaction wrote
\* stays.  C27 rests on the rollback.
CleanupMark_NoRollback(h) ==
    /\ h \in Running /\ h.op = "run_ride_cleanup" /\ h.pc = "mark_expired_rides_inactive"
    /\ rides' = mark_expired_rides_inactive
    /\ IF \A r \in DOMAIN rides : RideStatusCheck(mark_expired_rides_inactive[r].status)
         THEN Goto(h, [h EXCEPT !.pc = "delete_old_expired_rides"])
         ELSE Finish(h)
    /\ UNCHANGED <<bookings, nextRideId, nextBookingId, appVars>>

\* The UPDATE writes 'expired', which the CHECK on rides.status refuses: the
\* statement raises IntegrityError, get_connection rolls back and
\* run_ride_cleanup ends with the exception (its callers catch it).
CleanupMark(h) ==
    /\ h \in Running /\ h.op = "run_ride_cleanup" /\ h.pc = "mark_expired_rides_inactive"
    /\ IF \A r \in DOMAIN rides : RideStatusCheck(mark_expired_rides_inactive[r].status)
         THEN /\ rides' = mark_expired_rides_inactive
              /\ Goto(h, [h EXCEPT !.pc = "delete_old_expired_rides"])
         ELSE /\ rides' = rides
              /\ Finish(h)
    /\ UNCHANGED <<bookings, nextRideId, nextBookingId, appVars>>

\* delete_old_expired_rides: rides WHERE status = 'expired' AND updated_at <
\* now - 1 day, deleted after the bookings (messages, reviews) that name them.
StaleExpiredRows(R) == {r \in DOMAIN R : R[r].status = "expired" /\ R[r].stale}

rides_to_delete == StaleExpiredRows(rides)

CleanupDelete(h) ==
    /\ h \in Running /\ h.op = "run_ride_cleanup" /\ h.pc = "delete_old_expired_rides"
    /\ bookings' = DeleteRows(bookings, {b \in DOMAIN bookings : bookings[b].ride_id \in rides_to_delete})
    /\ rides' = DeleteRows(rides, rides_to_delete)
    /\ Finish(h)
    /\ UNCHANGED <<nextRideId, nextBookingId, appVars>>

\* Database.run_ride_cleanup on the tables R (rides) and B (bookings) with no
\* other transaction between its two calls: the tables it leaves, whether it
\* ended with the IntegrityError of the first UPDATE, and the counts it
\* returns otherwise (rowcount of the UPDATE, rowcount of DELETE FROM rides).
run_ride_cleanup(R, B) ==
    LET marked == MarkExpiredRows(R)
    IN  IF \E r \in DOMAIN R : ~RideStatusCheck(marked[r].status)
          THEN [rides |-> R, bookings |-> B, raised |-> TRUE,
                marked_expired |-> 0, deleted_rides |-> 0]
          ELSE LET gone == StaleExpiredRows(marked)
               IN  [rides |-> DeleteRows(marked, gone),
                    bookings |-> DeleteRows(B, {b \in DOMAIN B : B[b].ride_id \in gone}),
                    raised |-> FALSE,
                    marked_expired |-> Cardinality(ExpiredRows(R)),
                    deleted_rides |-> Cardinality(gone)]

\* ---------------------------------------------------------------- the clock
\* Time passes.  For a ride that is not 'expired' the event that matters is
\* its departure + 30 minutes falling behind now; updated_at is read only of
\* 'expired' rides (delete_old_expired_rides), and for those the event is
\* updated_at falling more than one day behind.
TimePasses(r) ==
    /\ r \in DOMAIN rides
    /\ rides' = [rides EXCEPT ![r] =
                    IF @.status = "expired" THEN [@ EXCEPT !.stale = TRUE]
                                            ELSE [@ EXCEPT !.due = TRUE]]
    /\ rides' # rides
    /\ UNCHANGED <<bookings, nextBookingId, nextRideId, inflight, appVars>>

RideIds == 1..MaxRides
BookingIds == 1..MaxBookings

Next ==
    \/ \E u \in Users, n \in 1..MaxSeats : CreateRide(u, n)
    \/ \E via \in {"book_ride", "api_quick_book_ride", "api_create_booking"},
          u \in Users, r \in RideIds, blocked \in BOOLEAN : BookStart(via, u, r, blocked)
    \/ \E h \in Running : BookCheckExisting(h)
    \/ \E h \in Running : BookCreate(h)
    \/ \E via \in {"approve_booking", "api_approve_booking"},
          u \in Users, b \in BookingIds : ApproveStart(via, u, b)
    \/ \E h \in Running : ApproveSelect(h)
    \/ \E h \in Running : ApproveUpdate(h)
    \/ \E via \in {"reject_booking", "api_reject_booking"},
          u \in Users, b \in BookingIds : RejectBooking(via, u, b)
    \/ \E via \in {"cancel_booking", "api_cancel_booking"},
          u \in Users, b \in BookingIds : CancelStart(via, u, b)
    \/ \E h \in Running : CancelSelect(h)
    \/ \E h \in Running : CancelUpdate(h)
    \/ \E via \in {"rides.cancel_ride", "admin.cancel_ride"},
          u \in Users, r \in RideIds : CancelRideStart(via, u, r)
    \/ \E h \in Running : CancelRideUpdate(h)
    \/ \E h \in Running : CancelRideNotify(h)
    \/ \E via \in {"api_cancel_ride", "api_admin_cancel_ride"},
          u \in Users, r \in RideIds : ApiCancelRide(via, u, r)
    \/ \E via \in {"complete_ride", "api_complete_ride"},
          u \in Users, r \in RideIds : CompleteRideStart(via, u, r)
    \/ \E h \in Running : CompleteRideUpdate(h)
    \/ \E u \in Users, r \in RideIds : EditRideStart(u, r)
    \/ \E h \in Running, n \in 0..MaxSeats : EditRideValidate(h, n)
    \/ \E h \in Running, due \in BOOLEAN : EditRideUpdate(h, due)
    \/ \E u \in Users, r \in RideIds, n \in 0..MaxSeats, due \in BOOLEAN :
          ApiUpdateRide(u, r, n, due)
    \/ \E u \in Users, r \in RideIds, referenced \in BOOLEAN : ApiDeleteRide(u, r, referenced)
    \/ CleanupStart
    \/ \E h \in Running : CleanupMark(h)
    \/ \E h \in Running : CleanupDelete(h)
    \/ \E r \in RideIds : TimePasses(r)

Spec == Init /\ [][Next]_vars

\* ======================================================================
\* The schedule of the sweep (app.py)
\* ======================================================================
\* before_request_user runs ahead of every request: it reads
\* app._last_cleanup and, when that is None or more than 3600 seconds old,
\* calls db.run_ride_cleanup() and then sets app._last_cleanup to the `now`
\* it read; an exception of the sweep skips the assignment and is dropped
\* (except Exception: pass).  Requests are served by threads: another
\* request may run its own test between the test and the assignment.
SweepHandler(pc, t) == [op |-> "before_request_user", pc |-> pc, now |-> t]

CleanupDue ==
    \/ last_cleanup = {}
    \/ \E t \in last_cleanup : (now - t) * TickSeconds > CleanupInterval

\* A request arrives and the test passes (a request for which it fails goes
\* on to its route with nothing changed).
BeforeRequestUser ==
    /\ CanStart
    /\ CleanupDue
    /\ Start(SweepHandler("mark_expired_rides_inactive", now))
    /\ last_run' = now
    /\ UNCHANGED <<rides, bookings, nextRideId, nextBookingId, last_cleanup, now, raised>>

\* The sweep of a request whose failure is recorded like a success
\* (app._last_cleanup set in a `finally`): C22 rests on the assignment being
\* skipped.
SweepMark_RecordsFailure(h) ==
    /\ h \in Running /\ h.op = "before_request_user"
    /\ h.pc = "mark_expired_rides_inactive"
    /\ IF \A r \in DOMAIN rides : RideStatusCheck(mark_expired_rides_inactive[r].status)
         THEN /\ rides' = mark_expired_rides_inactive
              /\ Goto(h, [h EXCEPT !.pc = "delete_old_expired_rides"])
              /\ UNCHANGED <<raised, last_cleanup>>
         ELSE /\ rides' = rides
              /\ Finish(h)
              /\ raised' = TRUE
              /\ last_cleanup' = {h.now}
    /\ UNCHANGED <<bookings, nextRideId, nextBookingId, now, last_run>>

\* db.run_ride_cleanup() inside the try, first call: as CleanupMark; the
\* IntegrityError leaves the try block, the assignment is skipped and the
\* request goes on.
SweepMark(h) ==
    /\ h \in Running /\ h.op = "before_request_user"
    /\ h.pc = "mark_expired_rides_inactive"
    /\ IF \A r \in DOMAIN rides : RideStatusCheck(mark_expired_rides_inactive[r].status)
         THEN /\ rides' = mark_expired_rides_inactive
              /\ Goto(h, [h EXCEPT !.pc = "delete_old_expired_rides"])
              /\ UNCHANGED <<raised, last_cleanup>>
         ELSE /\ rides' = rides
              /\ Finish(h)
              /\ raised' = TRUE
              /\ last_cleanup' = last_cleanup
    /\ UNCHANGED <<bookings, nextRideId, nextBookingId, now, last_run>>

\* Second call: as CleanupDelete.
SweepDelete(h) ==
    /\ h \in Running /\ h.op = "before_request_user"
    /\ h.pc = "delete_old_expired_rides"
    /\ bookings' = DeleteRows(bookings, {b \in DOMAIN bookings : bookings[b].ride_id \in rides_to_delete})
    /\ rides' = DeleteRows(rides, rides_to_delete)
    /\ Goto(h, [h EXCEPT !.pc = "_last_cleanup"])
    /\ UNCHANGED <<nextRideId, nextBookingId, appVars>>

\* app._last_cleanup = now (the value read before the sweep).
SweepDone(h) ==
    /\ h \in Running /\ h.op = "before_request_user" /\ h.pc = "_last_cleanup"
    /\ last_cleanup' = {h.now}
    /\ raised' = FALSE
    /\ Finish(h)
    /\ UNCHANGED <<rides, bookings, nextRideId, nextBookingId, now, last_run>>

\* The server is started again over the same database: app.py is imported,
\* app._last_cleanup is unset and the start-up block runs the sweep, before
\* any request is served (its exception is printed and dropped).
StartupCleanup ==
    /\ inflight = EmptyBag
    /\ LET result == run_ride_cleanup(rides, bookings)
       IN  /\ rides' = result.rides
           /\ bookings' = result.bookings
    /\ last_cleanup' = {}
    /\ last_run' = now
    /\ raised' = FALSE
    /\ UNCHANGED <<nextRideId, nextBookingId, inflight, now>>

Tick ==
    /\ now < MaxTicks
    /\ now' = now + 1
    /\ UNCHANGED <<rides, bookings, nextRideId, nextBookingId, inflight,
                   last_cleanup, last_run, raised>>

\* The schedule, with the requests that decide whether the sweep raises: a
\* ride is posted, its departure passes or is moved.
SweepNext ==
    \/ \E u \in Users, n \in 1..MaxSeats : CreateRide(u, n)
    \/ \E u \in Users, r \in RideIds, n \in 0..MaxSeats, due \in BOOLEAN :
          ApiUpdateRide(u, r, n, due)
    \/ \E r \in RideIds : TimePasses(r)
    \/ BeforeRequestUser
    \/ \E h \in Running : SweepMark(h)
    \/ \E h \in Running : SweepDelete(h)
    \/ \E h \in Running : SweepDone(h)
    \/ StartupCleanup
    \/ Tick

SweepSpec == Init /\ [][SweepNext]_vars

\* ======================================================================
\* Properties
\* ======================================================================
Confirmed(B, r) == {b \in DOMAIN B : B[b].ride_id = r /\ B[b].status = "confirmed"}

Active(B, r, u) ==
    {b \in DOMAIN B : B[b].ride_id = r /\ B[b].passenger_id = u
                      /\ B[b].status \in {"pending", "confirmed"}}

\* C1: every ride's seats_taken equals the number of its bookings whose
\* status is confirmed or completed.
C1_SeatsMatchBookings ==
    \A r \in DOMAIN rides :
        rides[r].seats_taken = Cardinality(BookingsWithStatus(r, {"confirmed", "completed"}))

\* C2: an ApproveBooking that found the ride with total_seats = 1 and
\* seats_taken = 0 leaves it, when it commits, with exactly one confirmed
\* booking, seats_taken = 1 and status full (of two concurrent approvals of
\* the last seat only one confirms).
C2_LastSeatRace ==
    [][\A h \in Running :
          (ApproveUpdate(h) /\ h.total_seats = 1 /\ h.seats_taken = 0
             /\ h.ride_id \in DOMAIN rides)
          => /\ Cardinality(Confirmed(bookings', h.ride_id)) = 1
             /\ rides'[h.ride_id].seats_taken = 1
             /\ rides'[h.ride_id].status = "full"]_vars

\* C3: every ride satisfies 0 <= seats_taken <= total_seats.
C3_SeatsWithinCapacity ==
    \A r \in DOMAIN rides :
        0 <= rides[r].seats_taken /\ rides[r].seats_taken <= rides[r].total_seats

\* C4: a ride has status full if and only if seats_taken = total_seats.
\* Stated of the rides in service (active or full), so that a violation is
\* not merely a completed or cancelled ride that was full.
C4_FullIffNoSeatLeft ==
    \A r \in DOMAIN rides :
        rides[r].status \in {"active", "full"} =>
            (rides[r].status = "full" <=> rides[r].seats_taken = rides[r].total_seats)

\* C5: for every (ride, passenger) pair at most one booking is pending or
\* confirmed.
C5_OneActiveBookingPerPair ==
    \A r \in RideIds, u \in Users : Cardinality(Active(bookings, r, u)) <= 1

\* C5 witness: the passenger asked twice at once; one request has inserted its
\* row and the other is about to INSERT for the same pair.
C5_Witness ==
    \E h \in Running :
        /\ h.op = "book" /\ h.pc = "create_booking"
        /\ Active(bookings, h.ride_id, h.actor) # {}

\* C6: a booking that is rejected, cancelled or completed keeps its status.
TerminalBooking == {"rejected", "cancelled", "completed"}

C6_TerminalBookingStays ==
    [][\A b \in DOMAIN bookings :
          (bookings[b].status \in TerminalBooking /\ b \in DOMAIN bookings')
          => bookings'[b].status = bookings[b].status]_vars

\* C7: a ride that is completed, cancelled or expired keeps its status (it
\* may be deleted).
TerminalRide == {"completed", "cancelled", "expired"}

C7_TerminalRideStays ==
    [][\A r \in DOMAIN rides :
          (rides[r].status \in TerminalRide /\ r \in DOMAIN rides')
          => rides'[r].status = rides[r].status]_vars

\* C8: ApproveBooking, having found the booking pending and the ride with
\* seats_taken = k < total_seats, sets in one step the booking to confirmed
\* and seats_taken to k + 1, and the status to full exactly when k + 1 equals
\* total_seats, leaving the status alone otherwise.
C8_ApproveEffect ==
    [][\A h \in Running :
          /\ (ApproveSelect(h) /\ BagCardinality(inflight') = BagCardinality(inflight))
             => /\ bookings[h.id].status = "pending"
                /\ LET r == bookings[h.id].ride_id
                   IN  /\ rides[r].seats_taken < rides[r].total_seats
                       /\ [h EXCEPT !.pc = "update", !.ride_id = r,
                                    !.seats_taken = rides[r].seats_taken,
                                    !.total_seats = rides[r].total_seats]
                             \in BagToSet(inflight')
          /\ (ApproveUpdate(h) /\ h.id \in DOMAIN bookings /\ h.ride_id \in DOMAIN rides)
             => /\ h.seats_taken < h.total_seats
                /\ bookings'[h.id].status = "confirmed"
                /\ rides'[h.ride_id].seats_taken = h.seats_taken + 1
                /\ rides'[h.ride_id].status =
                      IF h.seats_taken + 1 = h.total_seats THEN "full"
                                                           ELSE rides[h.ride_id].status
                /\ rides'[h.ride_id].total_seats = rides[h.ride_id].total_seats]_vars

\* C8 witness: a ride with two seats that two approvals have filled.
C8_Witness ==
    \E r \in DOMAIN rides :
        /\ rides[r].total_seats = 2 /\ rides[r].seats_taken = 2
        /\ rides[r].status = "full"
        /\ Cardinality(Confirmed(bookings, r)) = 2

\* C9: CancelBooking sets the booking to cancelled; having found it
\* confirmed and the ride with seats_taken = k, it sets seats_taken to k - 1
\* (0 when k = 0) and the status to active if and only if it was full; having
\* found it pending, it leaves the ride's seats_taken and status as they are.
C9_CancelEffect ==
    [][\A h \in Running :
          (CancelUpdate(h) /\ h.id \in DOMAIN bookings /\ h.ride_id \in DOMAIN rides)
          => /\ bookings'[h.id].status = "cancelled"
             /\ h.status = "confirmed" =>
                   /\ rides'[h.ride_id].seats_taken =
                         IF h.seats_taken >= 1 THEN h.seats_taken - 1 ELSE 0
                   /\ rides'[h.ride_id].status =
                         IF rides[h.ride_id].status = "full" THEN "active"
                                                             ELSE rides[h.ride_id].status
             /\ h.status = "pending" =>
                   /\ rides'[h.ride_id].seats_taken = rides[h.ride_id].seats_taken
                   /\ rides'[h.ride_id].status = rides[h.ride_id].status]_vars

\* C9 witness: a CancelBooking that found the booking confirmed on a full
\* ride has committed (a second cancel of the same booking, which read the
\* same, is still running): the booking is cancelled, the ride active again
\* with one seat fewer taken.
C9_Witness ==
    \E h \in Running :
        /\ h.op = "cancel" /\ h.pc = "update" /\ h.status = "confirmed"
        /\ h.ride_id \in DOMAIN rides /\ h.id \in DOMAIN bookings
        /\ h.seats_taken = rides[h.ride_id].total_seats
        /\ bookings[h.id].status = "cancelled"
        /\ rides[h.ride_id].status = "active"
        /\ rides[h.ride_id].seats_taken = h.seats_taken - 1

\* C10: RequestBooking ends as a duplicate only when the passenger has a
\* pending or confirmed booking on the ride; and when the ride is active with
\* a free seat, the passenger is not its driver and has no pending or
\* confirmed booking on it, the INSERT adds exactly one pending booking and
\* changes no ride.
BookPreconditions(r, u) ==
    /\ r \in DOMAIN rides
    /\ rides[r].status = "active"
    /\ rides[r].seats_taken < rides[r].total_seats
    /\ rides[r].driver_id # u
    /\ Active(bookings, r, u) = {}

C10_RequestBookingEffect ==
    [][\A h \in Running :
          /\ (BookCheckExisting(h) /\ BagCardinality(inflight') < BagCardinality(inflight))
             => Active(bookings, h.ride_id, h.actor) # {}
          /\ (BookCreate(h) /\ BookPreconditions(h.ride_id, h.actor))
             => /\ DOMAIN bookings' = DOMAIN bookings \cup {nextBookingId}
                /\ nextBookingId \notin DOMAIN bookings
                /\ bookings'[nextBookingId] = BookingRow(h.ride_id, h.actor)
                /\ \A b \in DOMAIN bookings : bookings'[b] = bookings[b]
                /\ rides' = rides]_vars

\* C11: a booking row is inserted only on a ride that is, at the INSERT,
\* active with seats_taken below total_seats (whatever the entry point).
C11_BookingOnlyOnOpenRide ==
    [][\A h \in Running :
          (BookCreate(h) /\ bookings' # bookings)
          => /\ h.ride_id \in DOMAIN rides
             /\ rides[h.ride_id].status = "active"
             /\ rides[h.ride_id].seats_taken < rides[h.ride_id].total_seats]_vars

\* C12: no booking's passenger is the driver of its ride.
C12_NoDriverBooking ==
    \A b \in DOMAIN bookings :
        bookings[b].ride_id \in DOMAIN rides
            => bookings[b].passenger_id # rides[bookings[b].ride_id].driver_id

\* C12 witness: every user but the driver has asked for a seat on the ride
\* and holds a booking row; the driver holds none.
C12_Witness ==
    \E r \in DOMAIN rides :
        /\ \A u \in Users \ {rides[r].driver_id} :
              \E b \in BookingsOfRide(r) : bookings[b].passenger_id = u
        /\ ~ \E b \in BookingsOfRide(r) : bookings[b].passenger_id = rides[r].driver_id

\* C13: CancelRide sets, in one step, the ride to cancelled and each of its
\* pending or confirmed bookings to cancelled, and leaves every other booking
\* (rejected, cancelled or completed ones, and those of other rides) as it is.
CancelRideEffect(r) ==
    /\ rides'[r].status = "cancelled"
    /\ DOMAIN bookings' = DOMAIN bookings
    /\ \A b \in DOMAIN bookings :
          IF bookings[b].ride_id = r /\ bookings[b].status \in {"pending", "confirmed"}
            THEN bookings'[b] = [bookings[b] EXCEPT !.status = "cancelled"]
            ELSE bookings'[b] = bookings[b]

C14_CompleteOnlyFromService ==
    [][\A h \in Running :
          (CompleteRideUpdate(h) /\ (rides' # rides \/ bookings' # bookings))
          => /\ h.ride_id \in DOMAIN rides
             /\ rides[h.ride_id].status \in {"active", "full"}]_vars

\* C15: a request that gets through to approve or reject a booking is made by
\* the driver of the booking's ride, and a request that gets through to
\* cancel a booking is made by its passenger or by that driver.
C15_ActorsOfBookingDecisions ==
    [][\A u \in Users, b \in BookingIds :
          /\ \A via \in {"approve_booking", "api_approve_booking"} :
                ApproveStart(via, u, b) => IsDriverOf(u, b)
          /\ \A via \in {"reject_booking", "api_reject_booking"} :
                RejectBooking(via, u, b) => IsDriverOf(u, b)
          /\ \A via \in {"cancel_booking", "api_cancel_booking"} :
                CancelStart(via, u, b) =>
                    (bookings[b].passenger_id = u \/ IsDriverOf(u, b))]_vars

\* C16: when the mark phase of the sweep runs, every ride that is active or
\* full and whose departure plus 30 minutes is past ends in status expired,
\* and every other ride keeps its status.
C16_MarkExpiredEffect ==
    [][\A h \in Running :
          CleanupMark(h)
          => /\ DOMAIN rides' = DOMAIN rides
             /\ \A r \in DOMAIN rides :
                   rides'[r].status = IF r \in ExpiredNow THEN "expired"
                                                         ELSE rides[r].status]_vars

\* C18: the sweep run twice in succession on the same tables at the same
\* clock: the second run leaves rides and bookings as the first left them and
\* reports zero rides marked and zero rides deleted.
C18_SweepIdempotent ==
    LET first == run_ride_cleanup(rides, bookings)
        second == run_ride_cleanup(first.rides, first.bookings)
    IN  /\ second.rides = first.rides
        /\ second.bookings = first.bookings
        /\ ~second.raised
        /\ second.marked_expired = 0
        /\ second.deleted_rides = 0

\* C19: once a ride is completed, cancelled or expired, no step changes its
\* total_seats or its seats_taken (of the attributes the claim lists, those
\* that bookkeeping reads; the ride may be deleted).
C19_TerminalRideFrozen ==
    [][\A r \in DOMAIN rides :
          (rides[r].status \in TerminalRide /\ r \in DOMAIN rides')
          => /\ rides'[r].total_seats = rides[r].total_seats
             /\ rides'[r].seats_taken = rides[r].seats_taken]_vars

\* C20: a CancelRide request that has cancelled the ride notifies, before it
\* ends, every passenger whose booking on the ride was pending or confirmed
\* when db.cancel_ride cancelled it.
C20_CancelRideNotifies ==
    [][/\ \A h \in Running :
             CancelRideNotify(h) => h.affected \subseteq CancelRideRecipients(h.ride_id)
       /\ \A via \in {"api_cancel_ride", "api_admin_cancel_ride"}, u \in Users, r \in RideIds :
             ApiCancelRide(via, u, r) =>
                 PendingOrConfirmedPassengers(r) \subseteq ApiCancelRideRecipients(r)]_vars

\* C21: an ApproveBooking that fails, because the booking is not pending or
\* because the ride has no free seat, returns without reaching its UPDATEs
\* (db.approve_booking returns False, the route reports the failure) and
\* leaves every booking and every ride as they are.
C21_FailedApproveChangesNothing ==
    [][\A h \in Running :
          (/\ ApproveSelect(h)
           /\ \/ h.id \notin DOMAIN bookings
              \/ bookings[h.id].status # "pending"
              \/ rides[bookings[h.id].ride_id].seats_taken
                    >= rides[bookings[h.id].ride_id].total_seats)
          => /\ inflight' = inflight (-) SetToBag({h})
             /\ bookings' = bookings
             /\ rides' = rides]_vars

\* C21 witness: db.approve_booking is about to SELECT for a pending booking
\* whose ride has every seat taken (the request came through the API, which
\* does not look at the seats, or the last seat went after the route's test).
C21_Witness ==
    \E h \in Running :
        /\ h.op = "approve" /\ h.pc = "select"
        /\ h.id \in DOMAIN bookings /\ bookings[h.id].status = "pending"
        /\ LET ride == rides[bookings[h.id].ride_id]
           IN  ride.seats_taken >= ride.total_seats /\ ride.status = "full"

\* C22: a sweep that raises inside before_request_user does not reach the
\* caller: the handler goes on with rides and bookings as they were before
\* the sweep, and app._last_cleanup is left as it was, so that the failure
\* does not put off the next attempt.
C22_SweepErrorSwallowed ==
    [][\A h \in Running :
          (SweepMark(h) /\ ExpiredNow # {})
          => /\ rides' = rides
             /\ bookings' = bookings
             /\ last_cleanup' = last_cleanup
             /\ inflight' = inflight (-) SetToBag({h})]_vars

\* C22 witness: the sweep of a request has raised and, app._last_cleanup
\* being still unset, the sweep of the next request is running over the
\* same due ride.
C22_Witness ==
    /\ raised /\ last_cleanup = {} /\ ExpiredNow # {}
    /\ \E h \in Running :
          h.op = "before_request_user" /\ h.pc = "mark_expired_rides_inactive"

\* C23: db.run_ride_cleanup is called at most once per hour: when a request
\* calls it, the previous call (of a request or of the start-up block) is at
\* least 3600 seconds old.
C23_SweepAtMostHourly ==
    [][BeforeRequestUser => (now - last_run) * TickSeconds >= CleanupInterval]_vars

\* C24: a CancelBooking that found its booking confirmed and an
\* ApproveBooking that found a different booking of the same ride pending
\* are both between their SELECT and their UPDATEs, each having read the
\* ride's present seats_taken, which equals the number of confirmed bookings.
\* Whichever commits first, once both have committed seats_taken equals the
\* number of confirmed bookings (the same number as now: one booking leaves
\* and one enters).  No other request can start while the two are running.
CancelApprovePair(h, g) ==
    /\ h.op = "cancel" /\ h.pc = "update" /\ h.status = "confirmed"
    /\ g.op = "approve" /\ g.pc = "update"
    /\ g.id # h.id /\ g.ride_id = h.ride_id /\ h.ride_id \in DOMAIN rides
    /\ h.id \in DOMAIN bookings /\ bookings[h.id].status = "confirmed"
    /\ g.id \in DOMAIN bookings /\ bookings[g.id].status = "pending"
    /\ rides[h.ride_id].seats_taken = Cardinality(Confirmed(bookings, h.ride_id))
    /\ h.seats_taken = rides[h.ride_id].seats_taken
    /\ g.seats_taken = rides[h.ride_id].seats_taken

C24_CancelApproveNoLostUpdate ==
    \A h, g \in Running :
        CancelApprovePair(h, g) =>
            LET ride == rides[h.ride_id]
                confirmed == Cardinality(Confirmed(bookings, h.ride_id))
                approve_first ==
                    CancelRideRow(ApproveRide(ride, g.seats_taken, g.total_seats), h.seats_taken)
                cancel_first ==
                    ApproveRide(CancelRideRow(ride, h.seats_taken), g.seats_taken, g.total_seats)
            IN  /\ approve_first.seats_taken = confirmed
                /\ cancel_first.seats_taken = confirmed

\* C25: the mark phase of the sweep, however it interleaves with CancelRide
\* and CompleteRide, leaves a ride that is cancelled or completed when its
\* UPDATE runs with that status: it never sets such a ride to expired.
C25_MarkKeepsCancelledCompleted ==
    [][\A h \in Running :
          CleanupMark(h)
          => \A r \in DOMAIN rides :
                rides[r].status \in {"cancelled", "completed"}
                => /\ r \in DOMAIN rides'
                   /\ rides'[r].status = rides[r].status]_vars

\* C25 witness: the mark phase has run (the sweep is between its two calls)
\* while a CancelRide request on a ride whose departure is past was running
\* and had committed its UPDATE: the ride is cancelled.
C25_Witness ==
    \E h, g \in Running :
        /\ h.op = "run_ride_cleanup" /\ h.pc = "delete_old_expired_rides"
        /\ g.op = "cancel_ride" /\ g.pc = "get_bookings_by_ride"
        /\ g.ride_id \in DOMAIN rides
        /\ rides[g.ride_id].due /\ rides[g.ride_id].status = "cancelled"

\* C26: the mark phase of the sweep changes no booking and no ride's
\* seats_taken or total_seats: neither the rows its UPDATE writes (status and
\* updated_at only, whether or not the write is then rolled back) nor the
\* tables as the phase leaves them differ in these.
C26_MarkFrame ==
    [][\A h \in Running :
          CleanupMark(h)
          => /\ bookings' = bookings
             /\ DOMAIN rides' = DOMAIN rides
             /\ \A r \in DOMAIN rides :
                   /\ rides'[r].seats_taken = rides[r].seats_taken
                   /\ rides'[r].total_seats = rides[r].total_seats
                   /\ mark_expired_rides_inactive[r].seats_taken = rides[r].seats_taken
                   /\ mark_expired_rides_inactive[r].total_seats = rides[r].total_seats
                   /\ mark_expired_rides_inactive[r].driver_id = rides[r].driver_id]_vars

\* C26 witness: the mark phase is about to run over a ride in service whose
\* departure is past and which has a pending and a confirmed booking.
C26_Witness ==
    \E h \in Running :
        /\ h.op = "run_ride_cleanup" /\ h.pc = "mark_expired_rides_inactive"
        /\ \E r \in ExpiredNow :
              /\ rides[r].seats_taken = 1
              /\ BookingsWithStatus(r, {"pending"}) # {}
              /\ BookingsWithStatus(r, {"confirmed"}) # {}

C28_BookingsFollowRides ==
    [][/\ \A b \in DOMAIN bookings' : bookings'[b].ride_id \in DOMAIN rides'
       /\ \A b \in (DOMAIN bookings) \ (DOMAIN bookings') :
             /\ bookings[b].ride_id \in DOMAIN rides
             /\ bookings[b].ride_id \notin DOMAIN rides']_vars

\* C28 witness: the ride was deleted while a request to book it, which had
\* read it, was on its way to the INSERT (which the FOREIGN KEY will refuse).
C28_Witness ==
    \E h \in Running :
        /\ h.op = "book" /\ h.pc = "create_booking"
        /\ h.ride_id \notin DOMAIN rides
        /\ nextRideId > h.ride_id

\* C29: ApproveBooking racing with RejectBooking or CancelBooking on the same
\* pending booking ends as one of the two serial orders.  An approval whose
\* UPDATEs run when the booking has meanwhile been rejected or cancelled does
\* not confirm it and does not add a seat; a cancellation that read the
\* booking pending and whose UPDATEs run when the approval has meanwhile
\* confirmed it gives the seat back (approve, then cancel).
C29_ApproveRaceSerializable ==
    [][\A h \in Running :
          /\ (/\ ApproveUpdate(h)
              /\ h.id \in DOMAIN bookings /\ h.ride_id \in DOMAIN rides
              /\ bookings[h.id].status \in {"rejected", "cancelled"})
             => /\ bookings'[h.id].status = bookings[h.id].status
                /\ rides'[h.ride_id].seats_taken = rides[h.ride_id].seats_taken
          /\ (/\ CancelUpdate(h)
              /\ h.id \in DOMAIN bookings /\ h.ride_id \in DOMAIN rides
              /\ h.status = "pending" /\ bookings[h.id].status = "confirmed")
             => /\ bookings'[h.id].status = "cancelled"
                /\ rides'[h.ride_id].seats_taken = rides[h.ride_id].seats_taken - 1]_vars

\* C30: no ride that is cancelled or completed has a confirmed booking.
C30_NoConfirmedOnClosedRide ==
    \A r \in DOMAIN rides :
        rides[r].status \in {"cancelled", "completed"}
            => BookingsWithStatus(r, {"confirmed"}) = {}

=============================================================================
